---- MODULE Spec2Model ----
(***************************************************************************)
(* AFK-Remover Discord bot: the per-guild configuration store (SQLite      *)
(* table "guilds"), the slash-command handlers, and the voiceStateUpdate   *)
(* handler with its idle-relocation timers.                                *)
(*                                                                         *)
(* The repository holds several revisions of the same bot.  A behaviour    *)
(* of the model runs ONE revision, named by the variable rev:              *)
(*   "part_001"   src/unnamed/part_001          permission check, plain    *)
(*                                              upsert, disconnect only    *)
(*   "part_003a"  src/unnamed/part_003:1-422    no permission check, plain *)
(*                                              upsert, timers with the    *)
(*                                              configured timeout         *)
(*   "part_003b"  src/unnamed/part_003:424-815  merging upsert + COALESCE  *)
(*   "part_000b"  src/unnamed/part_000:349-769  merging upsert, all six    *)
(*                (store = src/unnamed/part_004) commands                  *)
(*   "part_005"   src/unnamed/part_005          keep-first upsert          *)
(*   "index_a"    src/index.js:1-277            timers of 5 minutes, armed *)
(*                                              only if the old channel is *)
(*                                              not the AFK channel        *)
(*   "part_002"   src/unnamed/part_002          timers of 5 minutes        *)
(*   "index_b"    src/index.js:279-633          table server_configs,      *)
(*                                              /setup and /afkinfo,       *)
(*                                              disconnect only            *)
(***************************************************************************)
EXTENDS Integers, Sequences, FiniteSets, TLC

VARIABLES
    rev,        \* the revision of the bot that is running
    db,         \* table guilds: guild id -> row, or NoRow
    storeCall,  \* observation: the last direct call of saveGuildConfig or
                \* of getGuildConfig
    calls,      \* number of direct calls made so far
    cmd,        \* observation: the last slash command handled
    sinceSetup, \* observation: per guild, the /setup that was the last command
    args,       \* observation: what was wrong with the last command's arguments
    configured, \* observation: per guild, the columns as the commands stored them
    voice,      \* guild.voiceStates: member -> voice state
    botCanMove, \* the bot has MoveMembers in the AFK channel
    timers,     \* pending setTimeout callbacks, in arming order
    requests,   \* disconnect / setChannel requests sent and not yet applied
    now,        \* the clock, in ticks of five minutes
    ev,         \* observation: the voiceStateUpdate handled by the last step,
                \* and whether a setChannel of the bot brought it about
    fired,      \* observation: the timer callback run by the last step
    failure,    \* observation: the error raised in the last step, and its fate
    idle,       \* observation: per member, the current continuous idle period
    translations, \* the bundles loaded from ./translations: language -> bundle
    tcall       \* observation: the last call of t

vars == <<rev, db, storeCall, calls, cmd, sinceSetup, args, configured, voice,
          botCanMove,
          timers, requests, now, ev, fired, failure, idle, translations, tcall>>

storeVars == <<storeCall, calls>>
cmdVars   == <<cmd, sinceSetup, args, configured>>
voiceVars == <<voice, botCanMove, timers, requests, now, ev, fired, failure,
               idle>>
locVars   == <<translations, tcall>>

-----------------------------------------------------------------------------
(* JavaScript values.  A value is a record with a single field naming its  *)
(* type, so values of different types are comparable and never equal.      *)

Undef     == [undef |-> TRUE]
Null      == [null |-> TRUE]
Str(s)    == [str |-> s]
Num(n)    == [num |-> n]
Arr(q)    == [arr |-> q]
\* a string holding the JSON text of value v
Json(v)   == [json |-> v]

IsUndef(v) == DOMAIN v = {"undef"}
IsNull(v)  == DOMAIN v = {"null"}
IsStr(v)   == DOMAIN v = {"str"}
IsNum(v)   == DOMAIN v = {"num"}
IsArr(v)   == DOMAIN v = {"arr"}
IsJson(v)  == DOMAIN v = {"json"}

\* JavaScript truthiness: undefined, null, "" and 0 are falsy; an array
\* (also the empty one) and a non-empty string are truthy.
Truthy(v) ==
    CASE IsUndef(v) -> FALSE
      [] IsNull(v)  -> FALSE
      [] IsStr(v)   -> v.str # ""
      [] IsNum(v)   -> v.num # 0
      [] OTHER      -> TRUE

\* a || b
Or(a, b) == IF Truthy(a) THEN a ELSE b

\* JSON.stringify(v): undefined stays undefined, anything else becomes text.
JSONstringify(v) == IF IsUndef(v) THEN Undef ELSE Json(v)

\* the exception JSON.parse throws
SyntaxError == [throws |-> "SyntaxError"]

\* JSON.parse(text): the value, for a text produced by JSON.stringify; a
\* SyntaxError for any other string; JSON.parse(null) is null.
JSONparse(text) ==
    IF IsJson(text) THEN text.json
    ELSE IF IsStr(text) THEN SyntaxError
    ELSE Null

-----------------------------------------------------------------------------
(* The world the bot runs in.                                              *)

Guilds == {"g1"}

\* guild.name
GuildName(g) == Str("Guild " \o g)

\* Voice channels of a guild (channel.type === 2) and one text channel.
VoiceChannels == {"c1", "c2", "c3"}
TextChannels  == {"t1"}
ChannelName(c) ==
    CASE c = "c1" -> "AFK Lounge"
      [] c = "c2" -> "General"
      [] c = "c3" -> "Music"
      [] c = "t1" -> "general"

\* String.prototype.toLowerCase on the strings the model uses.
ToLowerCase(s) ==
    CASE s = "AFK Lounge" -> "afk lounge"
      [] s = "General"    -> "general"
      [] s = "Music"      -> "music"
      [] s = "Admins"     -> "admins"
      [] s = "Mods"       -> "mods"
      [] OTHER            -> s

\* Roles of a guild: r1 carries the Administrator permission, r2 does not.
RoleIds     == {"r1", "r2"}
Role(r)     == [id |-> r, name |-> IF r = "r1" THEN "Admins" ELSE "Mods"]
AdminRoleIds == {"r1"}

\* Bundles loaded from ./translations (translations[lang] is truthy).
Languages == {"en_us", "pt_br"}

-----------------------------------------------------------------------------
(* Table guilds.                                                           *)

NoRow == [norow |-> TRUE]

Fields == {"serverName", "afkChannelId", "afkChannelName", "allowedRoles",
           "language", "afkTimeout"}

\* {} : every property reads as undefined
EmptyObject == [f \in Fields |-> Undef]

\* The row as a config object keyed by the JavaScript property names.
RowOf(c) ==
    [server_name      |-> c.serverName,
     afk_channel_id   |-> c.afkChannelId,
     afk_channel_name |-> c.afkChannelName,
     allowed_roles    |-> c.allowedRoles,
     language         |-> c.language,
     afk_timeout      |-> c.afkTimeout]

\* The column of a row that holds property f of the config object.
ColumnOf(row, f) ==
    CASE f = "serverName"     -> row.server_name
      [] f = "afkChannelId"   -> row.afk_channel_id
      [] f = "afkChannelName" -> row.afk_channel_name
      [] f = "allowedRoles"   -> row.allowed_roles
      [] f = "language"       -> row.language
      [] f = "afkTimeout"     -> row.afk_timeout

\* better-sqlite3 binds numbers, strings and null; stmt.run throws a
\* TypeError for any other value (undefined, an array, an object) and
\* nothing is written.
Bindable(v) == IsStr(v) \/ IsNum(v) \/ IsNull(v) \/ IsJson(v)

AllBindable(params) == \A f \in DOMAIN params : Bindable(params[f])

\* SQL COALESCE(a, b) and NULLIF(a, '')
Coalesce(a, b) == IF IsNull(a) THEN b ELSE a
NullIfEmpty(a) == IF a = Str("") THEN Null ELSE a

\* getGuildConfig with the guarded parse:
\*   allowedRoles: row.allowed_roles ? JSON.parse(row.allowed_roles) : []
\* getGuildConfig returning no afkTimeout property, as the revisions without
\* the column do.
getGuildConfigNoTimeout(row) ==
    IF row = NoRow THEN Null
    ELSE LET allowedRoles == IF Truthy(row.allowed_roles)
                             THEN JSONparse(row.allowed_roles)
                             ELSE Arr(<<>>)
         IN  IF allowedRoles = SyntaxError THEN SyntaxError
             ELSE [serverName     |-> row.server_name,
                   afkChannelId   |-> row.afk_channel_id,
                   afkChannelName |-> row.afk_channel_name,
                   allowedRoles   |-> allowedRoles,
                   language       |-> row.language,
                   afkTimeout     |-> Undef]

\* An exception of JSON.parse leaves getGuildConfig.
getGuildConfig(row) ==
    IF row = NoRow THEN Null
    ELSE LET allowedRoles == IF Truthy(row.allowed_roles)
                             THEN JSONparse(row.allowed_roles)
                             ELSE Arr(<<>>)
         IN  IF allowedRoles = SyntaxError THEN SyntaxError
             ELSE [serverName     |-> row.server_name,
                   afkChannelId   |-> row.afk_channel_id,
                   afkChannelName |-> row.afk_channel_name,
                   allowedRoles   |-> allowedRoles,
                   language       |-> row.language,
                   afkTimeout     |-> row.afk_timeout]

\* getGuildConfig of the revisions without afk_timeout:
\*   allowedRoles: JSON.parse(row.allowed_roles), and no afkTimeout property
getGuildConfigFive(row) ==
    IF row = NoRow THEN Null
    ELSE LET allowedRoles == JSONparse(row.allowed_roles)
         IN  IF allowedRoles = SyntaxError THEN SyntaxError
             ELSE [serverName     |-> row.server_name,
                   afkChannelId   |-> row.afk_channel_id,
                   afkChannelName |-> row.afk_channel_name,
                   allowedRoles   |-> allowedRoles,
                   language       |-> row.language,
                   afkTimeout     |-> Undef]

\* getGuildConfig of the revision whose table has neither allowed_roles nor
\* afk_timeout
getGuildConfigFour(row) ==
    IF row = NoRow THEN Null
    ELSE [serverName     |-> row.server_name,
          afkChannelId   |-> row.afk_channel_id,
          afkChannelName |-> row.afk_channel_name,
          allowedRoles   |-> Undef,
          language       |-> row.language,
          afkTimeout     |-> Undef]

\* getServerConfig returns the row as SELECT * gives it, keyed by the column
\* names (server_name, afk_channel_id, afk_channel_name, allowed_roles,
\* language).  The callers read serverName, afkChannelId, afkChannelName,
\* allowedRoles and language of it: only language is the name of a column,
\* the other properties read as undefined.
getServerConfig(row) ==
    IF row = NoRow THEN Null
    ELSE [serverName     |-> Undef,
          afkChannelId   |-> Undef,
          afkChannelName |-> Undef,
          allowedRoles   |-> Undef,
          language       |-> row.language,
          afkTimeout     |-> Undef]

\* getGuildConfig(guildId) || {}
OrEmpty(c) == IF c = Null THEN EmptyObject ELSE c

-----------------------------------------------------------------------------
(* saveGuildConfig, one operator per revision of the upsert.  Each takes   *)
(* the guild's row (or NoRow) and the config object and gives the row      *)
(* after the call and whether stmt.run threw.                              *)

DefaultLanguage   == Str("en_us")
DefaultAfkTimeout == 5

Ran(row)   == [threw |-> FALSE, row |-> row]
Threw(row) == [threw |-> TRUE,  row |-> row]

\* updatedConfig of the merging saveGuildConfig
mergeConfigResetLanguage(config, existingConfig) ==
    [serverName     |-> Or(config.serverName, existingConfig.serverName),
     afkChannelId   |-> Or(config.afkChannelId, existingConfig.afkChannelId),
     afkChannelName |-> Or(config.afkChannelName, existingConfig.afkChannelName),
     allowedRoles   |-> IF Truthy(config.allowedRoles)
                        THEN JSONstringify(config.allowedRoles)
                        ELSE existingConfig.allowedRoles,
     language       |-> Or(config.language, DefaultLanguage),
     afkTimeout     |-> IF config.afkTimeout # Undef
                        THEN config.afkTimeout
                        ELSE Or(existingConfig.afkTimeout, Num(DefaultAfkTimeout))]

\* The merge taking afkChannelId from the new config alone.
mergeConfigNewAfkOnly(config, existingConfig) ==
    [serverName     |-> Or(config.serverName, existingConfig.serverName),
     afkChannelId   |-> config.afkChannelId,
     afkChannelName |-> Or(config.afkChannelName, existingConfig.afkChannelName),
     allowedRoles   |-> IF Truthy(config.allowedRoles)
                        THEN JSONstringify(config.allowedRoles)
                        ELSE existingConfig.allowedRoles,
     language       |-> Or(Or(config.language, existingConfig.language),
                           DefaultLanguage),
     afkTimeout     |-> IF config.afkTimeout # Undef
                        THEN config.afkTimeout
                        ELSE Or(existingConfig.afkTimeout, Num(DefaultAfkTimeout))]

mergeConfig(config, existingConfig) ==
    [serverName     |-> Or(config.serverName, existingConfig.serverName),
     afkChannelId   |-> Or(config.afkChannelId, existingConfig.afkChannelId),
     afkChannelName |-> Or(config.afkChannelName, existingConfig.afkChannelName),
     allowedRoles   |-> IF Truthy(config.allowedRoles)
                        THEN JSONstringify(config.allowedRoles)
                        ELSE existingConfig.allowedRoles,
     language       |-> Or(Or(config.language, existingConfig.language),
                           DefaultLanguage),
     afkTimeout     |-> IF config.afkTimeout # Undef
                        THEN config.afkTimeout
                        ELSE Or(existingConfig.afkTimeout, Num(DefaultAfkTimeout))]

\* merge, then INSERT ... ON CONFLICT DO UPDATE SET col = excluded.col
saveGuildConfigMerge(row, config) ==
    LET updatedConfig == mergeConfig(config, OrEmpty(getGuildConfig(row)))
    IN  IF AllBindable(updatedConfig) THEN Ran(RowOf(updatedConfig))
        ELSE Threw(row)

\* merge, then ON CONFLICT DO UPDATE SET
\*   col = COALESCE(NULLIF(@col, ''), guilds.col),
\*   afk_timeout = COALESCE(@afkTimeout, guilds.afk_timeout)
saveGuildConfigCoalesce(row, config) ==
    LET updatedConfig == mergeConfig(config, OrEmpty(getGuildConfig(row)))
        new == RowOf(updatedConfig)
    IN  IF ~AllBindable(updatedConfig) THEN Threw(row)
        ELSE IF row = NoRow THEN Ran(new)
        ELSE Ran([server_name      |-> Coalesce(NullIfEmpty(new.server_name), row.server_name),
                  afk_channel_id   |-> Coalesce(NullIfEmpty(new.afk_channel_id), row.afk_channel_id),
                  afk_channel_name |-> Coalesce(NullIfEmpty(new.afk_channel_name), row.afk_channel_name),
                  allowed_roles    |-> Coalesce(NullIfEmpty(new.allowed_roles), row.allowed_roles),
                  language         |-> Coalesce(NullIfEmpty(new.language), row.language),
                  afk_timeout      |-> Coalesce(new.afk_timeout, row.afk_timeout)])

\* The parameters bound by the revisions that do not merge in JavaScript.
plainParams(config) ==
    [serverName     |-> config.serverName,
     afkChannelId   |-> config.afkChannelId,
     afkChannelName |-> config.afkChannelName,
     allowedRoles   |-> JSONstringify(config.allowedRoles),
     language       |-> config.language,
     afkTimeout     |-> config.afkTimeout]

\* The same without afk_timeout: the table of these revisions has no such
\* column, which the row shows as NULL.
fiveParams(config) == [plainParams(config) EXCEPT !.afkTimeout = Null]

\* ON CONFLICT DO UPDATE SET col = @col
saveGuildConfigPlain(row, config) ==
    LET params == plainParams(config)
    IN  IF AllBindable(params) THEN Ran(RowOf(params)) ELSE Threw(row)

saveGuildConfigPlainFive(row, config) ==
    LET params == fiveParams(config)
    IN  IF AllBindable(params) THEN Ran(RowOf(params)) ELSE Threw(row)

\* saveServerConfig: the same upsert into server_configs, binding
\* JSON.stringify(config.allowedRoles || [])
serverParams(config) ==
    [fiveParams(config) EXCEPT
        !.allowedRoles = JSONstringify(Or(config.allowedRoles, Arr(<<>>)))]

saveServerConfig(row, config) ==
    LET params == serverParams(config)
    IN  IF AllBindable(params) THEN Ran(RowOf(params)) ELSE Threw(row)

\* ON CONFLICT DO UPDATE SET col = COALESCE(guilds.col, @col)
saveGuildConfigKeep(row, config) ==
    LET params == fiveParams(config)
        new    == RowOf(params)
    IN  IF ~AllBindable(params) THEN Threw(row)
        ELSE IF row = NoRow THEN Ran(new)
        ELSE Ran([server_name      |-> Coalesce(row.server_name, new.server_name),
                  afk_channel_id   |-> Coalesce(row.afk_channel_id, new.afk_channel_id),
                  afk_channel_name |-> Coalesce(row.afk_channel_name, new.afk_channel_name),
                  allowed_roles    |-> Coalesce(row.allowed_roles, new.allowed_roles),
                  language         |-> Coalesce(row.language, new.language),
                  afk_timeout      |-> Null])

MergingRevs == {"part_004", "part_000b", "part_003b"}
SixColumnRevs == MergingRevs \cup {"part_003a"}

\* The saveGuildConfig / getGuildConfig of the running revision.
Save(r, row, config) ==
    CASE r \in {"part_004", "part_000b"} -> saveGuildConfigMerge(row, config)
      [] r = "part_003b"                 -> saveGuildConfigCoalesce(row, config)
      [] r = "part_003a"                 -> saveGuildConfigPlain(row, config)
      [] r = "part_005"                  -> saveGuildConfigKeep(row, config)
      [] r = "index_b"                   -> saveServerConfig(row, config)
      [] OTHER                           -> saveGuildConfigPlainFive(row, config)

Get(r, row) ==
    CASE r \in SixColumnRevs -> getGuildConfig(row)
      [] r = "index_a"       -> getGuildConfigFour(row)
      [] r = "index_b"       -> getServerConfig(row)
      [] OTHER               -> getGuildConfigFive(row)

\* The properties a revision's config object has.
FieldsOf(r) == IF r \in SixColumnRevs THEN Fields ELSE Fields \ {"afkTimeout"}

-----------------------------------------------------------------------------
(* The localizer: the bundles and t(guildId, key, placeholders).           *)
(*                                                                         *)
(* A text is a sequence of pieces: a literal piece, or the token {name} of *)
(* a placeholder.  The values substituted hold no braces.                  *)

Lit(s)  == [lit |-> s]
Ph(n)   == [ph |-> n]
Text(q) == [text |-> q]

\* language codes a guild's row may hold; "xx" never has a bundle
LangCodes == Languages \cup {"xx"}

\* keys passed to t; no bundle has "nonexistent_key"
TKeys == {"greeting", "farewell", "nonexistent_key"}
BundleKeys == TKeys \ {"nonexistent_key"}

\* the template a bundle holds for a key: "farewell" uses {user} twice
BundleText(lang, key) ==
    IF key = "greeting"
    THEN <<Lit(lang \o ": hello "), Ph("user"), Lit(" in "), Ph("channel")>>
    ELSE <<Ph("user"), Lit(lang \o ": left, bye "), Ph("user")>>

\* a bundle that has the keys in keys
Bundle(lang, keys) ==
    [k \in TKeys |-> IF k \in keys THEN Text(BundleText(lang, k)) ELSE Undef]

NoT == [none |-> TRUE]

LocIdle ==
    /\ translations =
           [l \in LangCodes |-> IF l \in Languages THEN Bundle(l, BundleKeys) ELSE Undef]
    /\ tcall = NoT

\* translations[lang]?.[key]
Lookup(tr, lang, key) ==
    IF IsStr(lang) /\ lang.str \in DOMAIN tr /\ tr[lang.str] # Undef
    THEN tr[lang.str][key] ELSE Undef

FirstToken(q, name) ==
    CHOOSE i \in DOMAIN q :
        q[i] = Ph(name) /\ \A j \in 1..(i - 1) : q[j] # Ph(name)

\* text.replace(`{${placeholder}}`, value): a string pattern replaces the
\* first occurrence only
Replace(q, name, value) ==
    IF \E i \in DOMAIN q : q[i] = Ph(name)
    THEN [q EXCEPT ![FirstToken(q, name)] = Lit(value)]
    ELSE q

\* for (const [placeholder, value] of Object.entries(placeholders)) ...
RECURSIVE Substitute(_, _)
Substitute(q, placeholders) ==
    IF placeholders = <<>> THEN q
    ELSE Substitute(Replace(q, placeholders[1][1], placeholders[1][2]),
                    Tail(placeholders))

\* getGuildConfig(guildId)?.language || "en_us"
LangOf(guildConfig) ==
    Or(IF guildConfig = Null THEN Undef ELSE guildConfig.language, DefaultLanguage)

\* translations[lang]?.[key] || translations["en_us"]?.[key] || key
TemplateNoFallback(tr, lang, key) ==
    Or(Lookup(tr, lang, key), Text(<<Lit(key)>>))

TemplateFor(tr, lang, key) ==
    Or(Or(Lookup(tr, lang, key), Lookup(tr, Str("en_us"), key)), Text(<<Lit(key)>>))

t(guildConfig, tr, key, placeholders) ==
    Text(Substitute(TemplateFor(tr, LangOf(guildConfig), key).text, placeholders))

-----------------------------------------------------------------------------
(* Values of the observation variables while nothing has been observed,    *)
(* and of the parts of the state a specification leaves alone.             *)

Members == {"u1", "bot"}
ClientUserId == "bot"

NoCall  == [none |-> TRUE]
NoCmd   == [none |-> TRUE]
NoSetup == [none |-> TRUE]
NoArgs  == [badChannel |-> FALSE, badLanguage |-> FALSE]
NoEvent == [none |-> TRUE]
NoFire  == [none |-> TRUE]
NoIdle  == [none |-> TRUE]
NoFailure == [none |-> TRUE]

\* a member who is in no voice channel
NotInVoice == [channelId |-> Null, selfMute |-> FALSE, selfDeaf |-> FALSE]

StoreIdle == storeCall = NoCall /\ calls = 0
\* the fields a command configures explicitly
ExplicitFields == {"afkChannelId", "afkChannelName", "allowedRoles", "language",
                   "afkTimeout"}

CmdIdle   ==
    /\ cmd = NoCmd
    /\ sinceSetup = [g \in Guilds |-> NoSetup]
    /\ args = NoArgs
    /\ configured = [g \in Guilds |-> [f \in ExplicitFields |-> Undef]]
VoiceIdle ==
    /\ voice = [m \in Members |-> NotInVoice]
    /\ botCanMove = TRUE
    /\ timers = <<>>
    /\ requests = <<>>
    /\ now = 0
    /\ ev = NoEvent
    /\ fired = NoFire
    /\ failure = NoFailure
    /\ idle = [m \in Members |-> NoIdle]

-----------------------------------------------------------------------------
(* SpecStore: saveGuildConfig called directly, twice in a row, with        *)
(* partial config objects.                                                 *)

MaxCalls == 2

StoreRevs == {"part_004", "part_003b", "part_003a", "part_005"}

\* afkChannelId / afkChannelName as callers pass them: both omitted, both
\* null, both empty, one omitted, or the id and name of a voice channel.
AfkInputs ==
    {<<Undef, Undef>>, <<Null, Null>>, <<Str(""), Str("")>>,
     <<Str("c1"), Str(ChannelName("c1"))>>,
     <<Str("c2"), Str(ChannelName("c2"))>>}

RolesInputs == {Undef, Arr(<<>>), Arr(<<Role("r2")>>)}

Partials ==
    {[serverName     |-> n,
      afkChannelId   |-> a[1],
      afkChannelName |-> a[2],
      allowedRoles   |-> r,
      language       |-> l,
      afkTimeout     |-> tm] :
        n \in {Undef, GuildName("g1")},
        a \in AfkInputs,
        r \in RolesInputs,
        l \in {Undef, Str("en_us"), Str("pt_br")},
        tm \in {Undef, Num(15)}}

InitStore ==
    /\ rev \in StoreRevs
    /\ db = [g \in Guilds |-> NoRow]
    /\ StoreIdle /\ LocIdle /\ CmdIdle /\ VoiceIdle

\* saveGuildConfig(g, config)
SaveCall(g, config) ==
    /\ calls < MaxCalls
    /\ LET r == Save(rev, db[g], config)
       IN  /\ db' = [db EXCEPT ![g] = r.row]
           /\ storeCall' = [g |-> g, config |-> config, before |-> db[g],
                            threw |-> r.threw]
    /\ calls' = calls + 1
    /\ UNCHANGED <<rev, locVars, cmdVars, voiceVars>>

NextStore == \E g \in Guilds, config \in Partials : SaveCall(g, config)

SpecStore == InitStore /\ [][NextStore]_vars

\* The last call was made and came back.
Called   == storeCall # NoCall
Returned == Called /\ ~storeCall.threw

\* C1 (merge retention): after a call of the merging saveGuildConfig on a
\* guild that had a row, every field the config object omits (undefined)
\* reads back from getGuildConfig exactly as it read before the call.
C1_MergeRetention ==
    (rev \in MergingRevs /\ Called /\ storeCall.before # NoRow) =>
        \A f \in Fields :
            IsUndef(storeCall.config[f]) =>
                getGuildConfig(db[storeCall.g])[f]
                    = getGuildConfig(storeCall.before)[f]

\* A second call that wrote a new afk channel, omitted language and
\* afkTimeout, and left the pt_br and 15 of the first call in place.
C1_Witness ==
    /\ rev \in MergingRevs /\ Returned /\ calls = 2
    /\ storeCall.before # NoRow
    /\ IsUndef(storeCall.config.language)
    /\ IsUndef(storeCall.config.afkTimeout)
    /\ db[storeCall.g] # storeCall.before
    /\ db[storeCall.g].language = Str("pt_br")
    /\ db[storeCall.g].afk_timeout = Num(15)

\* A field of a config object that carries a value.
Specified(v) == Truthy(v)

\* C2 (explicit fields overwrite and are read back): after saveGuildConfig
\* returns, getGuildConfig gives, for every field the config object
\* specifies, the value passed in, also when the row held another value.
C2_ExplicitReadBack ==
    (rev \in {"part_004", "part_005"} /\ Returned) =>
        \A f \in FieldsOf(rev) :
            Specified(storeCall.config[f]) =>
                Get(rev, db[storeCall.g])[f] = storeCall.config[f]

\* The same for the merging upsert alone.
C2_MergeReadBack ==
    (rev \in MergingRevs /\ Returned) =>
        \A f \in Fields :
            Specified(storeCall.config[f]) =>
                getGuildConfig(db[storeCall.g])[f] = storeCall.config[f]

-----------------------------------------------------------------------------
(* The voiceStateUpdate handler and its setTimeout callbacks.              *)
(*                                                                         *)
(* oldState and newState are the member's voice state before and after the *)
(* event; the callback reads the member's voice state at the time it runs. *)
(* disconnect() and setChannel() are requests to the platform: they take   *)
(* effect, and raise the next voiceStateUpdate, when the platform applies  *)
(* them.                                                                   *)

VoiceRevs   == {"part_003a", "index_a"}
\* revisions whose timer condition starts with oldState.channelId !== afkChannelId
OldStateRevs == {"index_a", "part_005"}

\* one step of the clock is five minutes
MsPerTick == 300000
FixedDelayMinutes == 5

\* the delay passed to setTimeout, in milliseconds
TimerDelayFixed(guildConfig) == FixedDelayMinutes * 60 * 1000

TimerDelay(r, guildConfig) ==
    IF r = "part_003a"
    THEN (IF IsNum(guildConfig.afkTimeout) THEN guildConfig.afkTimeout.num ELSE 0)
             * 60 * 1000
    ELSE TimerDelayFixed(guildConfig)

\* if (!guildConfig || !guildConfig.afkChannelId) return;
Configured(guildConfig) ==
    guildConfig # Null /\ Truthy(guildConfig.afkChannelId)

\* First branch of the handler: the number of disconnect() calls it makes.
DisconnectsByChannelName(guildConfig, m, newState, canMove) ==
    IF /\ Configured(guildConfig)
       /\ newState.channelId = guildConfig.afkChannelName
       /\ m # ClientUserId
       /\ canMove
    THEN 1 ELSE 0

\* The first branch without the check for the bot's own member.
DisconnectsAlsoTheBot(guildConfig, m, newState, canMove) ==
    IF /\ Configured(guildConfig)
       /\ newState.channelId = guildConfig.afkChannelId
       /\ canMove
    THEN 1 ELSE 0

Disconnects(guildConfig, m, newState, canMove) ==
    IF /\ Configured(guildConfig)
       /\ newState.channelId = guildConfig.afkChannelId
       /\ m # ClientUserId
       /\ canMove
    THEN 1 ELSE 0

\* The handler returns from inside the first branch for the bot itself and
\* when the bot lacks MoveMembers; otherwise it goes on to the timer check.
ReachesTimerCheck(guildConfig, m, newState, canMove) ==
    /\ Configured(guildConfig)
    /\ ~(/\ newState.channelId = guildConfig.afkChannelId
         /\ (m = ClientUserId \/ ~canMove))

\* The second branch without the comparison with the AFK channel.
ArmsTimerAnyChannel(r, guildConfig, m, oldState, newState, canMove) ==
    /\ ReachesTimerCheck(guildConfig, m, newState, canMove)
    /\ (r \in OldStateRevs => oldState.channelId # guildConfig.afkChannelId)
    /\ Truthy(newState.channelId)
    /\ newState.selfMute
    /\ newState.selfDeaf

\* Second branch: whether setTimeout is called.
ArmsTimer(r, guildConfig, m, oldState, newState, canMove) ==
    /\ ReachesTimerCheck(guildConfig, m, newState, canMove)
    /\ (r \in OldStateRevs => oldState.channelId # guildConfig.afkChannelId)
    /\ Truthy(newState.channelId)
    /\ newState.channelId # guildConfig.afkChannelId
    /\ newState.selfMute
    /\ newState.selfDeaf

\* The re-check without the comparison of the channels.
CallbackMovesAnyChannel(timer, currentState) ==
    /\ currentState.selfMute
    /\ currentState.selfDeaf

\* The callback's re-check: whether it calls setChannel(afkChannelId).
CallbackMoves(timer, currentState) ==
    /\ currentState.channelId = timer.channelId
    /\ currentState.selfMute
    /\ currentState.selfDeaf

-----------------------------------------------------------------------------
(* Observations.  ev describes the handler run of the step just taken and  *)
(* fired the callback run of the step just taken; idle[m] describes the    *)
(* member's current idle period.                                           *)

\* the guild of the model's members
TheGuild == "g1"

\* the record of some guild other than the members' guild
GuildConfigOfAnotherGuild ==
    Get(rev, db[CHOOSE g \in DOMAIN db : g # TheGuild \/ DOMAIN db = {TheGuild}])

GuildConfig == Get(rev, db[TheGuild])

AfkOf(guildConfig) ==
    IF Configured(guildConfig) THEN guildConfig.afkChannelId ELSE Undef

\* self-muted and self-deafened in a voice channel that is not the AFK channel
IsIdle(vs, afk) ==
    Truthy(vs.channelId) /\ vs.channelId # afk /\ vs.selfMute /\ vs.selfDeaf

\* the timeout the guild has configured, in ticks
ConfiguredTimeout ==
    TimerDelay(rev, GuildConfig) \div MsPerTick

\* The idle period of a member after a change from oldState to newState.
IdleAfter(period, oldState, newState, afk) ==
    IF ~IsIdle(newState, afk) THEN NoIdle
    ELSE IF period # NoIdle /\ IsIdle(oldState, afk)
            /\ oldState.channelId = newState.channelId
         THEN period
         ELSE [since |-> now, moves |-> 0]

\* A voice-state update that contradicts a pending relocation of member m.
MarkStale(q, m, newState, afk) ==
    [i \in DOMAIN q |->
        IF q[i].member = m /\ ~IsIdle(newState, afk)
        THEN [q[i] EXCEPT !.stale = TRUE] ELSE q[i]]

-----------------------------------------------------------------------------
(* SpecVoice: voice-state updates, the clock, timer callbacks and the      *)
(* platform applying the bot's requests, in a guild whose row is fixed.    *)

MaxTime     == 3
MaxTimers   == 2
MaxRequests == 2

\* Voice states the platform reports: c1 is the AFK channel and c2 another
\* voice channel.  A member who self-deafens is self-muted as well.  The
\* bot's own account only joins and leaves c1 and sets neither flag.
JoinedChannels(m) == IF m = ClientUserId THEN {"c1"} ELSE {"c1", "c2"}

SelfFlags(m) ==
    IF m = ClientUserId THEN {<<FALSE, FALSE>>}
    ELSE {<<FALSE, FALSE>>, <<TRUE, FALSE>>, <<TRUE, TRUE>>}

VoiceStatesOf(m) ==
    {NotInVoice} \cup
    {[channelId |-> Str(c), selfMute |-> f[1], selfDeaf |-> f[2]] :
        c \in JoinedChannels(m), f \in SelfFlags(m)}

\* A row as /setup (part_003a) or the sweep (index_a) leaves it, with c1 as
\* the AFK channel.
VoiceRow(r, minutes) ==
    [server_name      |-> GuildName(TheGuild),
     afk_channel_id   |-> Str("c1"),
     afk_channel_name |-> Str(ChannelName("c1")),
     allowed_roles    |-> IF r = "index_a" THEN Null ELSE Json(Arr(<<>>)),
     language         |-> Str("en_us"),
     afk_timeout      |-> IF r = "part_003a" THEN Num(minutes) ELSE Null]

VoiceTimeouts(r) == IF r = "part_003a" THEN {5, 15} ELSE {FixedDelayMinutes}

InitVoice ==
    /\ rev \in VoiceRevs
    /\ db \in [Guilds -> {NoRow} \cup {VoiceRow(rev, tm) : tm \in VoiceTimeouts(rev)}]
    /\ StoreIdle /\ LocIdle /\ CmdIdle
    /\ voice = [m \in Members |-> NotInVoice]
    /\ botCanMove \in BOOLEAN
    /\ timers = <<>>
    /\ requests = <<>>
    /\ now = 0
    /\ ev = NoEvent
    /\ fired = NoFire
    /\ failure = NoFailure
    /\ idle = [m \in Members |-> NoIdle]

\* The handler run on the event (oldState -> newState) of member m; the
\* member's state in guild.voiceStates is newState from here on.
Handle(m, newState, after) ==
    LET oldState == voice[m]
        cfg      == GuildConfig
        afk      == AfkOf(cfg)
        n        == Disconnects(cfg, m, newState, botCanMove)
        arms     == ArmsTimer(rev, cfg, m, oldState, newState, botCanMove)
        marked   == MarkStale(after.timers, m, newState, afk)
    IN  /\ arms => Len(after.timers) < MaxTimers
        /\ n > 0 => Len(after.requests) < MaxRequests
        /\ voice' = [voice EXCEPT ![m] = newState]
        /\ requests' = IF n > 0
                       THEN Append(after.requests,
                                   [kind |-> "disconnect", member |-> m,
                                    channelId |-> Null])
                       ELSE after.requests
        /\ timers' = IF arms
                     THEN Append(marked,
                                 [member    |-> m,
                                  channelId |-> newState.channelId,
                                  afk       |-> afk,
                                  deadline  |-> now + TimerDelay(rev, cfg) \div MsPerTick,
                                  stale     |-> FALSE])
                     ELSE marked
        /\ idle' = [idle EXCEPT ![m] = IdleAfter(idle[m], oldState, newState, afk)]
        /\ ev' = [member |-> m, oldChannelId |-> oldState.channelId,
                  disconnects |-> n, moved |-> after.moved]

\* A member joins, leaves, switches channel, toggles a flag, or the platform
\* repeats the member's state.
VoiceStateUpdate(m, newState) ==
    /\ Handle(m, newState,
              [timers |-> timers, requests |-> requests, moved |-> FALSE])
    /\ fired' = NoFire
    /\ failure' = NoFailure
    /\ UNCHANGED <<rev, locVars, db, storeVars, cmdVars, botCanMove, now>>

Due(i) == timers[i].deadline <= now

Without(q, i) == SubSeq(q, 1, i - 1) \o SubSeq(q, i + 1, Len(q))

\* The try block of the voiceStateUpdate handler encloses the handler's own
\* statements, the awaited disconnect() included; the function passed to
\* setTimeout runs after the handler has returned, and nothing awaits or
\* catches the promise it returns.
InsideTry(at) == at = "handler"

Failure(at, cause) == [at |-> at, cause |-> cause, caught |-> InsideTry(at)]

\* The record's AFK channel as it is when the callback runs.
MoveTargetCurrent(timer, guildConfig) == AfkOf(guildConfig)

\* currentState.setChannel(afkChannelId): afkChannelId is the const of the
\* handler run that called setTimeout.
MoveTarget(timer, guildConfig) == timer.afk

\* The oldest due timer's callback runs.  A member who has left the guild
\* is in no voice channel and is not in guild.members.cache: the callback
\* then reads .voice of undefined.
Fire(i) ==
    /\ i \in DOMAIN timers
    /\ Due(i)
    /\ \A j \in 1..(i - 1) : ~Due(j)
    /\ \E resolved \in BOOLEAN :
        /\ ~resolved => voice[timers[i].member] = NotInVoice
        /\ failure' = IF resolved THEN NoFailure
                      ELSE Failure("callback", "member")
    /\ LET timer == timers[i]
           m     == timer.member
           moves == CallbackMoves(timer, voice[m])
       IN  /\ moves => Len(requests) < MaxRequests
           /\ timers' = Without(timers, i)
           /\ requests' = IF moves
                          THEN Append(requests,
                                      [kind |-> "setChannel", member |-> m,
                                       channelId |-> MoveTarget(timer, GuildConfig)])
                          ELSE requests
           /\ idle' = IF moves /\ idle[m] # NoIdle
                      THEN [idle EXCEPT ![m].moves = @ + 1]
                      ELSE idle
           /\ fired' = [member  |-> m,
                        moved   |-> moves,
                        stale   |-> timer.stale,
                        idleFor |-> IF moves /\ idle[m] # NoIdle
                                    THEN now - idle[m].since ELSE 0]
    /\ ev' = NoEvent
    /\ UNCHANGED <<rev, locVars, db, storeVars, cmdVars, voice, botCanMove, now>>

\* A minute passes; callbacks that are due run first.
Tick ==
    /\ now < MaxTime
    /\ \A i \in DOMAIN timers : ~Due(i)
    /\ now' = now + 1
    /\ ev' = NoEvent
    /\ fired' = NoFire
    /\ failure' = NoFailure
    /\ UNCHANGED <<rev, locVars, db, storeVars, cmdVars, voice, botCanMove, timers,
                   requests, idle>>

\* The platform applies a request of the bot to a member who is in voice,
\* and the resulting voiceStateUpdate is handled.
PlatformApply(i) ==
    /\ i \in DOMAIN requests
    /\ botCanMove
    /\ LET req == requests[i]
           m   == req.member
       IN  /\ voice[m] # NotInVoice
           /\ Handle(m,
                     IF req.kind = "disconnect" THEN NotInVoice
                     ELSE [voice[m] EXCEPT !.channelId = req.channelId],
                     [timers |-> timers, requests |-> Without(requests, i),
                      moved |-> req.kind = "setChannel"])
    /\ fired' = NoFire
    /\ failure' = NoFailure
    /\ UNCHANGED <<rev, locVars, db, storeVars, cmdVars, botCanMove, now>>

\* The platform rejects a request: the bot lacks the permission, or the
\* member has left voice.
PlatformReject(i) ==
    /\ i \in DOMAIN requests
    /\ ~botCanMove \/ voice[requests[i].member] = NotInVoice
    /\ requests' = Without(requests, i)
    /\ failure' = Failure(IF requests[i].kind = "setChannel"
                          THEN "callback" ELSE "handler", "move")
    /\ ev' = NoEvent
    /\ fired' = NoFire
    /\ UNCHANGED <<rev, locVars, db, storeVars, cmdVars, voice, botCanMove, timers,
                   now, idle>>

NextVoice ==
    \/ \E m \in Members : \E newState \in VoiceStatesOf(m) :
           VoiceStateUpdate(m, newState)
    \/ \E i \in 1..MaxTimers : Fire(i)
    \/ Tick
    \/ \E i \in 1..MaxRequests : PlatformApply(i)
    \/ \E i \in 1..MaxRequests : PlatformReject(i)

SpecVoice == InitVoice /\ [][NextVoice]_vars

-----------------------------------------------------------------------------
(* Properties of the AFK channel and the idle timers, under SpecVoice.     *)

\* the step just taken handled an event that left a member other than the
\* bot in the configured AFK channel
InAfkEvent ==
    /\ ev # NoEvent
    /\ Configured(GuildConfig)
    /\ voice[ev.member].channelId = GuildConfig.afkChannelId
    /\ ev.member # ClientUserId

\* C3 as stated: every voiceStateUpdate whose new channel is the configured
\* AFK channel, for a member other than the bot, issues exactly one
\* disconnect for that member.
C3_ExactlyOneDisconnect ==
    InAfkEvent => ev.disconnects = 1

\* C3, amended: every voiceStateUpdate whose new channel is the configured
\* AFK channel, for a member other than the bot, issues exactly one
\* disconnect for that member when the bot has the Move Members permission
\* in that channel, also when the member was in the channel before the event.
C3_OneDisconnectWithPermission ==
    (InAfkEvent /\ botCanMove) => ev.disconnects = 1

\* C3: a member already in the AFK channel re-triggers an update there and
\* one disconnect is issued.
C3_Witness ==
    /\ InAfkEvent
    /\ botCanMove
    /\ ev.oldChannelId = GuildConfig.afkChannelId
    /\ ev.disconnects = 1
    /\ requests # <<>>
    /\ requests[Len(requests)] =
           [kind |-> "disconnect", member |-> ev.member, channelId |-> Null]

\* the step just taken ran a callback that called setChannel
Relocated == fired # NoFire /\ fired.moved

\* C4: the idle timer relocates a member only when the member has been
\* self-muted and self-deafened in the same non-AFK channel, without a
\* break, for at least the configured timeout.
C4_MinimumIdlePeriod ==
    Relocated => fired.idleFor >= ConfiguredTimeout

\* C5: a timer that was pending when an update showed its member out of
\* voice, not self-muted, not self-deafened or in the AFK channel never
\* relocates the member afterwards.
C5_Cancellation ==
    Relocated => ~fired.stale

PendingFor(m) == {i \in DOMAIN timers : timers[i].member = m}

\* C6: in every reachable state each member has at most one pending
\* idle-relocation timer.
C6_AtMostOneTimer ==
    \A m \in Members : Cardinality(PendingFor(m)) <= 1

\* member m has stayed idle in one non-AFK channel beyond the timeout
BeyondTimeout(m) ==
    /\ Configured(GuildConfig)
    /\ idle[m] # NoIdle
    /\ now > idle[m].since + ConfiguredTimeout

\* C7: a member who stays self-muted and self-deafened in a non-AFK channel
\* beyond the configured timeout has been relocated, or a callback that will
\* relocate them is pending, whichever channel the member came from.
C7_Relocation ==
    \A m \in Members :
        BeyondTimeout(m) =>
            \/ idle[m].moves >= 1
            \/ \E i \in PendingFor(m) : CallbackMoves(timers[i], voice[m])

\* C8: within one idle period of a member setChannel is never issued twice,
\* and once the period has passed the timeout it has been issued once.
C8_ExactlyOnce ==
    \A m \in Members :
        idle[m] # NoIdle =>
            /\ idle[m].moves <= 1
            /\ BeyondTimeout(m) => idle[m].moves = 1

-----------------------------------------------------------------------------
(* The slash-command handlers (interactionCreate).                         *)

CmdRevs == {"part_001", "part_003a", "part_000b"}
\* revisions whose handler starts with if (!hasPermission()) return reply(...)
GatedRevs == {"part_001", "index_b"}
\* revisions whose /setup and /setroles take a roles option
RolesOptionRevs == {"part_001", "part_000b", "index_b"}
\* revisions with the afk_timeout option and the /afklimit command
TimeoutRevs == {"part_003a", "part_000b"}

\* Who runs the command: member.permissions has Administrator, and the ids
\* in member.roles.cache.  Whoever holds r1 is an administrator.
Actors == {[admin |-> FALSE, roles |-> {}],
           [admin |-> FALSE, roles |-> {"r2"}],
           [admin |-> TRUE,  roles |-> {"r1"}]}

ChannelType(c) == IF c \in VoiceChannels THEN 2 ELSE 0

\* guild.channels.cache.find(channel => channel.type === 2 &&
\*   (channel.name.toLowerCase() === input.toLowerCase() || channel.id === input))
findVoiceChannel(input) ==
    LET hits == {c \in VoiceChannels \cup TextChannels :
                    /\ ChannelType(c) = 2
                    /\ \/ ToLowerCase(ChannelName(c)) = ToLowerCase(input)
                       \/ c = input}
    IN  IF hits = {} THEN Undef ELSE Str(CHOOSE c \in hits : TRUE)

\* roles with the Administrator permission that are not managed
findAdminRoles == <<Role("r1")>>

\* rolesInput.split(",").map(r => r.trim()) of an input without a comma
SplitTrim(rolesInput) == <<rolesInput>>

RoleNamed(name) ==
    {r \in RoleIds : ToLowerCase(Role(r).name) = ToLowerCase(name)}

\* .filter(name => !!guild.roles.cache.find(x => x.name.toLowerCase() === ...))
ExistingRoleNames(names) == SelectSeq(names, LAMBDA n : RoleNamed(n) # {})

\* ({ id: role.id, name: role.name }) of a string: both read as undefined and
\* JSON.stringify drops them
NoIdRole == [id |-> "", name |-> ""]

\* roleName => role ? { id: role.id, name: role.name } : null
RoleOrNull(name) ==
    IF RoleNamed(name) = {} THEN Null ELSE Role(CHOOSE r \in RoleNamed(name) : TRUE)

\* names.map(roleName => role ? {...} : null)
RolesOrNull(names) == [i \in DOMAIN names |-> RoleOrNull(names[i])]

\* names.map(role => ({ id: role.id, name: role.name }))
NoIdRoles(names) == [i \in DOMAIN names |-> NoIdRole]

\* the allowedRoles the commands build from the roles option
RolesFromInput(r, cmdName, rolesInput) ==
    CASE r \in {"part_001", "index_b"} ->
             Arr(findAdminRoles \o NoIdRoles(ExistingRoleNames(SplitTrim(rolesInput))))
      [] r = "part_000b" /\ cmdName = "setup" ->
             Arr(RolesOrNull(ExistingRoleNames(SplitTrim(rolesInput))))
      [] r = "part_000b" /\ cmdName = "setroles" ->
             Arr(RolesOrNull(SplitTrim(rolesInput)))
      [] OTHER -> Arr(findAdminRoles)

\* parseInt(afkTimeout, 10) of the option's choices
ParseIntFirstDigit(text) ==
    CASE text = "1"  -> 1
      [] text = "5"  -> 5
      [] text = "15" -> 1
      [] text = "30" -> 3
      [] text = "60" -> 6

ParseInt(text) ==
    CASE text = "1"  -> 1
      [] text = "5"  -> 5
      [] text = "15" -> 15
      [] text = "30" -> 30
      [] text = "60" -> 60

\* `${value}` of a template literal
Template(v) ==
    CASE IsNum(v)   -> ToString(v.num)
      [] IsStr(v)   -> v.str
      [] IsNull(v)  -> "null"
      [] OTHER      -> "undefined"

\* The member holds one of the roles of the stored allowedRoles.
HoldsAllowedRole(actor, guildConfig) ==
    /\ guildConfig # Null
    /\ IsArr(guildConfig.allowedRoles)
    /\ \E i \in DOMAIN guildConfig.allowedRoles.arr :
           LET role == guildConfig.allowedRoles.arr[i]
           IN  role # Null /\ role.id \in actor.roles

\* hasPermission(): false without a record, true for an administrator,
\* else whether the member holds one of the stored roles
hasPermission(actor, guildConfig) ==
    /\ guildConfig # Null
    /\ actor.admin \/ HoldsAllowedRole(actor, guildConfig)

\* whether the handler goes on to the command
PassesGate(r, actor, guildConfig) ==
    r \in GatedRevs => hasPermission(actor, guildConfig)

\* the actor is an administrator or holds a role of the stored allowedRoles
Authorized(actor, guildConfig) ==
    actor.admin \/ HoldsAllowedRole(actor, guildConfig)

-----------------------------------------------------------------------------
(* SpecCmd: slash commands, and the periodic sweep of the revision that    *)
(* has one, starting from an empty table.                                  *)

ChannelInputs  == {"c1", "afk lounge", "general", "t1"}
RolesOptionInputs == {"", "mods"}
LanguageInputs == Languages \cup {"xx"}
TimeoutChoices == {"5", "15"}

MutatingCommands == {"setup", "setafk", "setroles", "setlang", "afklimit"}

NoInfo == [channel |-> Undef, timeout |-> Undef, roles |-> ""]

\* the channel argument matches no voice channel of the guild
BadChannel(channelInput) == ~Truthy(findVoiceChannel(channelInput))

\* the language argument has no loaded bundle
BadLanguage(language) == language \notin Languages

InitCmd ==
    /\ rev \in CmdRevs
    /\ db = [g \in Guilds |-> NoRow]
    /\ StoreIdle /\ LocIdle /\ CmdIdle /\ VoiceIdle

\* the fields of the record that a command writes from its options
FieldsSetBy(name) ==
    CASE name = "setup"    -> ExplicitFields
      [] name = "setafk"   -> {"afkChannelId", "afkChannelName"}
      [] name = "setroles" -> {"allowedRoles"}
      [] name = "setlang"  -> {"language"}
      [] name = "afklimit" -> {"afkTimeout"}
      [] OTHER             -> {}

\* The handler returns or throws: the table, and what was observed of it.
Done(g, name, actor, outcome, row, saved, info, mark) ==
    /\ db' = [db EXCEPT ![g] = row]
    /\ configured' =
           IF saved /\ outcome = "replied"
           THEN [configured EXCEPT ![g] =
                    [f \in ExplicitFields |->
                        IF f \in FieldsSetBy(name) THEN ColumnOf(row, f) ELSE @[f]]]
           ELSE configured
    /\ cmd' = [name       |-> name,
               g          |-> g,
               actor      |-> actor,
               roles      |-> info.roles,
               authorized |-> Authorized(actor, Get(rev, db[g])),
               outcome    |-> outcome,
               saved      |-> saved,
               changed    |-> row # db[g],
               channel    |-> info.channel,
               timeout    |-> info.timeout,
               afterSetup |-> IF name = "afkinfo" THEN sinceSetup[g] ELSE NoSetup]
    /\ sinceSetup' = [sinceSetup EXCEPT ![g] = mark]
    /\ UNCHANGED <<rev, locVars, storeVars, voiceVars>>

\* return interaction.reply(...) before any write
Refused(g, name, actor, outcome) ==
    Done(g, name, actor, outcome, db[g], FALSE, NoInfo, NoSetup)

\* saveGuildConfig(guildId, config); return interaction.reply(...), for a
\* command given the roles option rolesInput
SavedRoles(g, name, actor, config, mark, rolesInput) ==
    LET r == Save(rev, db[g], config)
    IN  Done(g, name, actor, IF r.threw THEN "threw" ELSE "replied", r.row,
             TRUE, [NoInfo EXCEPT !.roles = rolesInput],
             IF r.threw THEN NoSetup ELSE mark)

\* saveGuildConfig(guildId, config); return interaction.reply(...)
Saved(g, name, actor, config, mark) ==
    SavedRoles(g, name, actor, config, mark, "")

Setup(g, actor, channelInput, rolesInput, language, afkTimeout) ==
    /\ args' = [badChannel |-> BadChannel(channelInput), badLanguage |-> BadLanguage(language)]
    /\ LET guildConfig == Get(rev, db[g])
           afkChannel  == findVoiceChannel(channelInput)
       IN  IF ~PassesGate(rev, actor, guildConfig)
           THEN Refused(g, "setup", actor, "no_permission")
           ELSE IF ~Truthy(afkChannel)
           THEN Refused(g, "setup", actor, "invalid_channel")
           ELSE IF rev = "part_001" /\ language \notin Languages
           THEN Refused(g, "setup", actor, "invalid_language")
           ELSE SavedRoles(g, "setup", actor,
                      [serverName     |-> GuildName(g),
                       afkChannelId   |-> afkChannel,
                       afkChannelName |-> Str(ChannelName(afkChannel.str)),
                       allowedRoles   |-> RolesFromInput(rev, "setup", rolesInput),
                       language       |-> Str(language),
                       afkTimeout     |-> IF rev \in TimeoutRevs
                                          THEN Num(ParseInt(afkTimeout)) ELSE Undef],
                      IF /\ db[g] = NoRow
                         /\ actor.admin
                         /\ rev \in TimeoutRevs
                         /\ afkTimeout = "15"
                      THEN [channelName |-> ChannelName(afkChannel.str)]
                      ELSE NoSetup,
                      IF rev \in RolesOptionRevs THEN rolesInput ELSE "")

SetAfk(g, actor, channelInput) ==
    /\ args' = [badChannel |-> BadChannel(channelInput), badLanguage |-> FALSE]
    /\ LET guildConfig == Get(rev, db[g])
           afkChannel  == findVoiceChannel(channelInput)
       IN  IF ~PassesGate(rev, actor, guildConfig)
           THEN Refused(g, "setafk", actor, "no_permission")
           ELSE IF ~Truthy(afkChannel)
           THEN Refused(g, "setafk", actor, "invalid_channel")
           ELSE Saved(g, "setafk", actor,
                      [OrEmpty(guildConfig) EXCEPT
                          !.afkChannelId   = afkChannel,
                          !.afkChannelName = Str(ChannelName(afkChannel.str))],
                      NoSetup)

SetRoles(g, actor, rolesInput) ==
    /\ args' = NoArgs
    /\ rev \in RolesOptionRevs
    /\ LET guildConfig == Get(rev, db[g])
       IN  IF ~PassesGate(rev, actor, guildConfig)
           THEN Refused(g, "setroles", actor, "no_permission")
           ELSE SavedRoles(g, "setroles", actor,
                      [OrEmpty(guildConfig) EXCEPT
                          !.allowedRoles = RolesFromInput(rev, "setroles", rolesInput)],
                      NoSetup, rolesInput)

SetLang(g, actor, language) ==
    /\ args' = [badChannel |-> FALSE, badLanguage |-> BadLanguage(language)]
    /\ LET guildConfig == Get(rev, db[g])
       IN  IF ~PassesGate(rev, actor, guildConfig)
           THEN Refused(g, "setlang", actor, "no_permission")
           ELSE IF language \notin Languages
           THEN Refused(g, "setlang", actor, "invalid_language")
           ELSE Saved(g, "setlang", actor,
                      [OrEmpty(guildConfig) EXCEPT !.language = Str(language)],
                      NoSetup)

AfkLimit(g, actor, afkTimeout) ==
    /\ args' = NoArgs
    /\ rev \in TimeoutRevs
    /\ Saved(g, "afklimit", actor,
             [OrEmpty(Get(rev, db[g])) EXCEPT
                 !.afkTimeout = Num(ParseInt(afkTimeout))],
             NoSetup)

\* building the embed throws a TypeError: .length or .map(role => role.id) on
\* what is no array of objects, .toUpperCase() on what is no string
AfkInfoThrows(r, guildConfig) ==
    /\ r # "part_001"
    /\ \/ ~IsArr(guildConfig.allowedRoles)
       \/ \E i \in DOMAIN guildConfig.allowedRoles.arr :
              guildConfig.allowedRoles.arr[i] = Null
       \/ ~IsStr(guildConfig.language)

AfkInfo(g, actor) ==
    /\ args' = NoArgs
    /\ LET guildConfig == Get(rev, db[g])
       IN  IF ~PassesGate(rev, actor, guildConfig)
           THEN Refused(g, "afkinfo", actor, "no_permission")
           ELSE IF guildConfig = Null
           THEN Refused(g, "afkinfo", actor, "no_configuration")
           ELSE IF AfkInfoThrows(rev, guildConfig)
           THEN Refused(g, "afkinfo", actor, "threw")
           ELSE Done(g, "afkinfo", actor, "replied", db[g], FALSE,
                     [channel |-> Or(guildConfig.afkChannelName, Str("Not set")),
                      timeout |-> IF rev \in TimeoutRevs
                                  THEN Str(Template(guildConfig.afkTimeout) \o " minute(s)")
                                  ELSE Undef,
                      roles   |-> ""],
                     NoSetup)

\* updateServerData for one guild; nativeAfk is guild.afkChannelId.  The
\* guild's preferred locale is en-US.  An exception of saveGuildConfig is
\* caught and logged.
UpdateServerData(g, nativeAfk) ==
    /\ rev = "part_001"
    /\ LET guildConfig == [OrEmpty(Get(rev, db[g])) EXCEPT
                              !.serverName   = GuildName(g),
                              !.allowedRoles = Arr(findAdminRoles),
                              !.language     = Str("en_us")]
           withAfk == IF Truthy(nativeAfk)
                      THEN [guildConfig EXCEPT
                               !.afkChannelId   = nativeAfk,
                               !.afkChannelName = Str(ChannelName(nativeAfk.str))]
                      ELSE guildConfig
       IN  db' = [db EXCEPT ![g] = Save(rev, db[g], withAfk).row]
    /\ cmd' = NoCmd
    /\ args' = NoArgs
    /\ UNCHANGED <<rev, locVars, storeVars, sinceSetup, configured, voiceVars>>

NextCmd ==
    \/ \E g \in Guilds, actor \in Actors, channelInput \in ChannelInputs,
          rolesInput \in RolesOptionInputs, language \in LanguageInputs,
          afkTimeout \in TimeoutChoices :
           Setup(g, actor, channelInput, rolesInput, language, afkTimeout)
    \/ \E g \in Guilds, actor \in Actors, channelInput \in ChannelInputs :
           SetAfk(g, actor, channelInput)
    \/ \E g \in Guilds, actor \in Actors, rolesInput \in RolesOptionInputs :
           SetRoles(g, actor, rolesInput)
    \/ \E g \in Guilds, actor \in Actors, language \in LanguageInputs :
           SetLang(g, actor, language)
    \/ \E g \in Guilds, actor \in Actors, afkTimeout \in TimeoutChoices :
           AfkLimit(g, actor, afkTimeout)
    \/ \E g \in Guilds, actor \in Actors : AfkInfo(g, actor)
    \/ \E g \in Guilds, nativeAfk \in {Undef, Str("c1")} :
           UpdateServerData(g, nativeAfk)

SpecCmd == InitCmd /\ [][NextCmd]_vars

-----------------------------------------------------------------------------
(* Properties of the commands, under SpecCmd.                             *)

\* C9: a mutating command of an actor who is no administrator and holds no
\* role of the stored allowedRoles is rejected, saveGuildConfig is not
\* called and the guild's row is unchanged.
C9_Authorization ==
    (/\ rev \in {"part_001", "part_003a"}
     /\ cmd # NoCmd /\ cmd.name \in MutatingCommands /\ ~cmd.authorized) =>
        /\ cmd.outcome = "no_permission"
        /\ ~cmd.saved
        /\ ~cmd.changed

\* the step just taken was the /afkinfo that follows an administrator's
\* /setup with afk_timeout 15 in a guild that had no record
InfoAfterSetup ==
    cmd # NoCmd /\ cmd.name = "afkinfo" /\ cmd.afterSetup # NoSetup

\* C10: after an administrator's /setup naming an existing voice channel
\* and afk_timeout 15 completes in a guild without a record, the next
\* /afkinfo reports that channel's name and "15 minute(s)".
C10_SetupThenStatus ==
    InfoAfterSetup =>
        /\ cmd.outcome = "replied"
        /\ cmd.channel = Str(cmd.afterSetup.channelName)
        /\ cmd.timeout = Str("15 minute(s)")

C10_Witness ==
    /\ InfoAfterSetup
    /\ cmd.outcome = "replied"
    /\ cmd.channel = Str("AFK Lounge")
    /\ cmd.timeout = Str("15 minute(s)")

\* the step just taken was a /setup or /setroles that completed and whose
\* roles option names an existing role
NamedRole ==
    /\ cmd # NoCmd
    /\ cmd.name \in {"setup", "setroles"}
    /\ cmd.outcome = "replied"
    /\ RoleNamed(cmd.roles) # {}

\* a member without Administrator whose only role is r
HolderOf(r) == [admin |-> FALSE, roles |-> {r}]

\* C11: after /setup or /setroles names an existing role R, the stored
\* allowedRoles has an entry with R's id and a non-administrator who holds
\* R passes the permission check.
C11_RolesGrantAccess ==
    (rev = "part_001" /\ NamedRole) =>
        \A r \in RoleNamed(cmd.roles) :
            /\ HoldsAllowedRole(HolderOf(r), Get(rev, db[cmd.g]))
            /\ hasPermission(HolderOf(r), Get(rev, db[cmd.g]))

-----------------------------------------------------------------------------
(* SpecT: calls of t for guilds whose row holds any language code, with    *)
(* any subset of the bundles loaded and any subset of the keys in each.    *)

TRevs == {"part_004", "index_a"}

\* a row holding the given language
LanguageRow(r, language) ==
    [server_name      |-> GuildName(TheGuild),
     afk_channel_id   |-> Null,
     afk_channel_name |-> Null,
     allowed_roles    |-> IF r = "index_a" THEN Null ELSE Json(Arr(<<>>)),
     language         |-> language,
     afk_timeout      |-> IF r = "index_a" THEN Null ELSE Num(DefaultAfkTimeout)]

StoredLanguages == {Null} \cup {Str(l) : l \in LangCodes}

\* what loadTranslations may have loaded for a language
BundleChoices(l) ==
    IF l \in Languages
    THEN {Undef} \cup {Bundle(l, keys) : keys \in SUBSET BundleKeys}
    ELSE {Undef}

\* Object.entries(placeholders)
PlaceholderMaps ==
    {<<>>,
     <<<<"user", "Ann">>>>,
     <<<<"user", "Ann">>, <<"channel", "General">>>>}

InitT ==
    /\ rev \in TRevs
    /\ db \in [Guilds -> {NoRow} \cup {LanguageRow(rev, l) : l \in StoredLanguages}]
    /\ translations \in {tr \in [LangCodes -> UNION {BundleChoices(l) : l \in LangCodes}] :
                            \A l \in LangCodes : tr[l] \in BundleChoices(l)}
    /\ tcall = NoT
    /\ StoreIdle /\ CmdIdle /\ VoiceIdle

TCall(g, key, placeholders) ==
    /\ tcall' = [g            |-> g,
                 key          |-> key,
                 placeholders |-> placeholders,
                 result       |-> t(Get(rev, db[g]), translations, key, placeholders)]
    /\ UNCHANGED <<rev, db, translations, storeVars, cmdVars, voiceVars>>

NextT ==
    \E g \in Guilds, key \in TKeys, placeholders \in PlaceholderMaps :
        TCall(g, key, placeholders)

SpecT == InitT /\ [][NextT]_vars

\* the language stored for guild g, undefined without a row
StoredLanguage(g) ==
    IF db[g] = NoRow THEN Undef ELSE Get(rev, db[g]).language

\* guild g has no stored language, or no bundle is loaded for it
NoBundle(g) ==
    \/ ~Truthy(StoredLanguage(g))
    \/ translations[StoredLanguage(g).str] = Undef

HasKey(lang, key) ==
    translations[lang] # Undef /\ translations[lang][key] # Undef

\* resolution of key under en_us
ResolveEnUs(key, placeholders) ==
    Text(Substitute((IF HasKey("en_us", key) THEN translations["en_us"][key]
                     ELSE Text(<<Lit(key)>>)).text,
                    placeholders))

IsText(v) == DOMAIN v = {"text"}

\* C12: t returns a text for every call; for a guild without a stored
\* language or without a bundle for it the result is the resolution under
\* en_us; for a key in neither the guild's bundle nor the en_us bundle the
\* result is the key itself.
C12_LocalizerFallback ==
    tcall # NoT =>
        /\ IsText(tcall.result)
        /\ NoBundle(tcall.g) =>
               tcall.result = ResolveEnUs(tcall.key, tcall.placeholders)
        /\ (/\ NoBundle(tcall.g) \/ ~HasKey(StoredLanguage(tcall.g).str, tcall.key)
            /\ ~HasKey("en_us", tcall.key)) =>
               tcall.result = Text(<<Lit(tcall.key)>>)

\* C12: a guild whose language has no bundle gets the en_us text of a key
\* that the en_us bundle has.
C12_Witness ==
    /\ tcall # NoT
    /\ StoredLanguage(tcall.g) = Str("xx")
    /\ HasKey("en_us", tcall.key)
    /\ tcall.placeholders = <<>>
    /\ tcall.result = Text(BundleText("en_us", tcall.key))

\* the names of a placeholder map
NamesOf(placeholders) == {placeholders[i][1] : i \in DOMAIN placeholders}

\* C13: the text returned by t holds no {name} token for any name of the
\* placeholder map, also when the template uses a placeholder twice.
C13_PlaceholderSubstitution ==
    tcall # NoT =>
        \A i \in DOMAIN tcall.result.text :
            \A n \in NamesOf(tcall.placeholders) :
                tcall.result.text[i] # Ph(n)

\* the step just taken was a /setup, /setafk or /setlang whose channel
\* argument matches no voice channel or whose language has no bundle
InvalidInput ==
    /\ cmd # NoCmd
    /\ cmd.name \in {"setup", "setafk", "setlang"}
    /\ args.badChannel \/ args.badLanguage

\* C14: a /setup, /setafk or /setlang with an invalid channel or language
\* argument is rejected with a reply and leaves the guild's row, and
\* whether it exists, as it was.
C14_InvalidInputCommitsNothing ==
    (rev \in {"part_001", "part_003a"} /\ InvalidInput) =>
        /\ cmd.outcome \in {"no_permission", "invalid_channel", "invalid_language"}
        /\ ~cmd.saved
        /\ ~cmd.changed

\* C15: after any number of sweeps the language, AFK channel and allowed
\* roles that a command stored for a guild are what the guild's row holds.
C15_SweepKeepsExplicit ==
    rev = "part_001" =>
        \A g \in Guilds : \A f \in ExplicitFields :
            configured[g][f] # Undef =>
                /\ db[g] # NoRow
                /\ ColumnOf(db[g], f) = configured[g][f]

\* C16: a saveGuildConfig for a guild without a record whose config omits
\* language, afkTimeout and allowedRoles creates the record, and the
\* getGuildConfig that follows returns language en_us, afkTimeout 5 and an
\* empty allowedRoles list.
OmitsDefaulted(config) ==
    /\ config.language = Undef
    /\ config.afkTimeout = Undef
    /\ config.allowedRoles = Undef

C16_DefaultsOnCreation ==
    (/\ rev \in {"part_004", "part_003a"}
     /\ storeCall # NoCall
     /\ storeCall.before = NoRow
     /\ OmitsDefaulted(storeCall.config)) =>
        LET guildConfig == Get(rev, db[storeCall.g])
        IN  /\ guildConfig # Null
            /\ guildConfig.language = DefaultLanguage
            /\ guildConfig.afkTimeout = Num(DefaultAfkTimeout)
            /\ guildConfig.allowedRoles = Arr(<<>>)

-----------------------------------------------------------------------------
(* SpecIso: two guilds.  Commands and sweeps run for either guild; the     *)
(* members, their voice-state updates and their timers are of TheGuild.    *)
(* An administrator configures c1 in g1 and c2 in g2; a voice-state update *)
(* is handled when no callback and no request is pending.                  *)

IsoGuilds == {"g1", "g2"}
IsoRevs   == {"part_001", "part_003a"}

IsoActor         == CHOOSE a \in Actors : a.admin
IsoChannel(g)    == IF g = TheGuild THEN "c1" ELSE "general"
IsoVoiceStates   ==
    {NotInVoice,
     [channelId |-> Str("c1"), selfMute |-> FALSE, selfDeaf |-> FALSE],
     [channelId |-> Str("c2"), selfMute |-> TRUE,  selfDeaf |-> TRUE]}

InitIso ==
    /\ rev \in IsoRevs
    /\ db = [g \in IsoGuilds |-> NoRow]
    /\ StoreIdle /\ LocIdle /\ VoiceIdle
    /\ cmd = NoCmd
    /\ sinceSetup = [g \in IsoGuilds |-> NoSetup]
    /\ args = NoArgs
    /\ configured = [g \in IsoGuilds |-> [f \in ExplicitFields |-> Undef]]

\* a command or a sweep step for guild g
CommandFor(g) ==
    \/ Setup(g, IsoActor, IsoChannel(g), "", "en_us", "5")
    \/ SetAfk(g, IsoActor, IsoChannel(g))
    \/ SetRoles(g, IsoActor, "")
    \/ SetLang(g, IsoActor, "pt_br")
    \/ AfkLimit(g, IsoActor, "15")
    \/ AfkInfo(g, IsoActor)
    \/ UpdateServerData(g, Str("c1"))

\* a voice-state update of member m of TheGuild
VoiceEvent(m, newState) ==
    /\ rev \in VoiceRevs
    /\ timers = <<>> /\ requests = <<>>
    /\ VoiceStateUpdate(m, newState)

\* a timer of a member of TheGuild fires, or the platform answers a request
TimerFor ==
    /\ rev \in VoiceRevs
    /\ \/ \E i \in 1..MaxTimers : Fire(i)
       \/ \E i \in 1..MaxRequests : PlatformApply(i)
       \/ \E i \in 1..MaxRequests : PlatformReject(i)

NextIso ==
    \/ \E g \in IsoGuilds : CommandFor(g)
    \/ \E newState \in IsoVoiceStates : VoiceEvent("u1", newState)
    \/ TimerFor
    \/ rev \in VoiceRevs /\ Tick

SpecIso == InitIso /\ [][NextIso]_vars

\* the handler's decision on the event, taken from the record of TheGuild
DecidedFromOwnRecord(m, newState) ==
    LET guildConfig == Get(rev, db[TheGuild])
    IN  /\ ev'.disconnects = Disconnects(guildConfig, m, newState, botCanMove)
        /\ Len(timers') > Len(timers)
               <=> ArmsTimer(rev, guildConfig, m, voice[m], newState, botCanMove)
        /\ Len(timers') > Len(timers)
               => timers'[Len(timers')].afk = guildConfig.afkChannelId

\* C17: the row of a guild changes only in a command or sweep step for that
\* guild, so a command or sweep for another guild, a voice-state update and
\* a timer firing leave it unchanged; and the disconnect / timer decision
\* on a voice-state update in TheGuild is the one the record of TheGuild
\* gives, whatever the other guild holds.
C17_GuildIsolation ==
    [][/\ \A g \in IsoGuilds : db'[g] # db[g] => CommandFor(g)
       /\ \A newState \in IsoVoiceStates :
              VoiceEvent("u1", newState) =>
                  DecidedFromOwnRecord("u1", newState)]_vars

\* the two guilds hold different AFK channels, the last command was for the
\* other guild, and a member of TheGuild joining its AFK channel was
\* disconnected
C17_Witness ==
    /\ db["g1"] # NoRow /\ db["g2"] # NoRow
    /\ db["g1"].afk_channel_id = Str("c1")
    /\ db["g2"].afk_channel_id = Str("c2")
    /\ cmd # NoCmd /\ cmd.g = "g2"
    /\ ev # NoEvent /\ ev.disconnects = 1

\* C18: an error raised while a relocation timer's callback runs (the
\* member is not resolved, or setChannel is rejected) is caught.
C18_TimerErrorsContained ==
    (failure # NoFailure /\ failure.at = "callback") => failure.caught

\* C19: a mutating command whose saveGuildConfig call fails replies with a
\* failure message instead of its success message, the guild's row is
\* unchanged, and the exception does not leave the handler.
StorageFailed ==
    /\ cmd # NoCmd
    /\ cmd.name \in MutatingCommands
    /\ cmd.saved
    /\ cmd.outcome # "replied"

C19_StorageFailureReported ==
    (rev \in {"part_003a", "part_000b"} /\ StorageFailed) =>
        /\ cmd.outcome = "storage_failure_reply"
        /\ ~cmd.changed

-----------------------------------------------------------------------------
(* SpecRead: getGuildConfig called on a table written by any revision of   *)
(* the bot or by hand: allowed_roles is NULL, empty, a JSON text, or a     *)
(* text that is no JSON.                                                   *)

ReadRevs == {"part_004", "part_001"}

StoredRoles ==
    {Null, Str(""), Str("[{"), Json(Arr(<<>>)), Json(Arr(<<Role("r2")>>))}

\* the stored value is absent or cannot be deserialized
Undeserializable(stored) == ~IsJson(stored)

ReadRows(r) ==
    {[server_name      |-> GuildName(TheGuild),
      afk_channel_id   |-> a[1],
      afk_channel_name |-> a[2],
      allowed_roles    |-> roles,
      language         |-> l,
      afk_timeout      |-> IF r \in SixColumnRevs
                           THEN Num(DefaultAfkTimeout) ELSE Null] :
        a \in {<<Null, Null>>, <<Str("c1"), Str(ChannelName("c1"))>>},
        roles \in StoredRoles,
        l \in {Str("en_us"), Str("pt_br")}}

InitRead ==
    /\ rev \in ReadRevs
    /\ db \in [Guilds -> {NoRow} \cup ReadRows(rev)]
    /\ StoreIdle /\ LocIdle /\ CmdIdle /\ VoiceIdle

\* getGuildConfig(g)
GetCall(g) ==
    /\ calls < MaxCalls
    /\ storeCall' = [g |-> g, result |-> Get(rev, db[g])]
    /\ calls' = calls + 1
    /\ UNCHANGED <<rev, db, locVars, cmdVars, voiceVars>>

NextRead == \E g \in Guilds : GetCall(g)

SpecRead == InitRead /\ [][NextRead]_vars

\* C20: getGuildConfig returns, and for a row whose allowed_roles is absent
\* or cannot be deserialized the record it returns has an empty role list.
C20_DefensiveRead ==
    (storeCall # NoCall /\ db[storeCall.g] # NoRow) =>
        /\ storeCall.result # SyntaxError
        /\ Undeserializable(db[storeCall.g].allowed_roles) =>
               storeCall.result.allowedRoles = Arr(<<>>)

-----------------------------------------------------------------------------
(* Properties of the timer callback and of the handler's first branch,     *)
(* under SpecVoice.                                                        *)

\* the step runs the callback of timer i and sends a request
FireMoves(i) ==
    /\ Len(timers') < Len(timers)
    /\ Len(requests') > Len(requests)
    /\ Fire(i)

C22_NoSpuriousDisconnect ==
    /\ (ev # NoEvent /\ ev.disconnects > 0) =>
           /\ Configured(GuildConfig)
           /\ voice[ev.member].channelId = GuildConfig.afkChannelId
           /\ ev.member # ClientUserId
    /\ \A i \in DOMAIN timers : Truthy(timers[i].channelId)

\* the platform repeated the state of a member who is in no voice channel,
\* in a guild with an AFK channel, and the handler did nothing
C22_Witness ==
    /\ ev # NoEvent
    /\ Configured(GuildConfig)
    /\ ev.oldChannelId = Null
    /\ voice[ev.member] = NotInVoice
    /\ ev.disconnects = 0
    /\ requests = <<>>

-----------------------------------------------------------------------------
(* Properties of commands followed by voice-state updates, under SpecIso.  *)

\* the last command was a /setafk with a valid channel, on a guild for which
\* no /setup or /setlang has stored anything: no command has set afkTimeout
AfterFirstSetAfk(g) ==
    /\ cmd # NoCmd
    /\ cmd.name = "setafk"
    /\ cmd.g = g
    /\ cmd.saved
    /\ configured[g].language = Undef

-----------------------------------------------------------------------------
(* Properties of sequences of commands, under SpecCmd.  A handler runs     *)
(* from getGuildConfig to saveGuildConfig without an await: handlers of    *)
(* concurrent interactions interleave only as whole read-modify-write      *)
(* steps, in either order.                                                 *)

\* C24: in the revisions without a sweep, whatever the order of the
\* commands, every field holds the value that the last command to write
\* that field stored: a later command on another field does not undo it.
C24_NoLostUpdate ==
    rev \in {"part_003a", "part_000b"} =>
        \A g \in Guilds : \A f \in ExplicitFields :
            configured[g][f] # Undef =>
                /\ db[g] # NoRow
                /\ ColumnOf(db[g], f) = configured[g][f]

\* /setafk has just changed the channel of a guild whose timeout /afklimit
\* had set to 15, after a /setup with language pt_br and timeout 5
C24_Witness ==
    /\ rev \in {"part_003a", "part_000b"}
    /\ cmd # NoCmd
    /\ cmd.name = "setafk"
    /\ cmd.outcome = "replied"
    /\ cmd.changed
    /\ db[cmd.g] # NoRow
    /\ Get(rev, db[cmd.g]).afkTimeout = Num(15)
    /\ Get(rev, db[cmd.g]).language = Str("pt_br")
    /\ configured[cmd.g].afkTimeout = Num(15)

\* C25: a mutating command of an actor with the Administrator permission
\* is never rejected for lack of permission, whether or not the guild has a
\* record.
C25_AdministratorPasses ==
    (/\ cmd # NoCmd
     /\ cmd.name \in MutatingCommands
     /\ cmd.actor.admin) =>
        cmd.outcome # "no_permission"

SingleFieldCommands == {"setafk", "setlang", "afklimit", "setroles"}

\* the step is a single-field command that changes the existing row of g
SingleFieldStep(g) ==
    /\ db[g] # NoRow
    /\ db'[g] # db[g]
    /\ cmd' # NoCmd
    /\ cmd'.g = g
    /\ cmd'.name \in SingleFieldCommands

\* C26: /setafk, /setlang, /afklimit and /setroles on a guild with a record
\* change only the fields they set: every other field of getGuildConfig,
\* and the column that holds it, is after the command what it was before.
C26_SingleFieldEffect ==
    [][\A g \in Guilds :
          SingleFieldStep(g) =>
              /\ db'[g] # NoRow
              /\ \A f \in Fields \ FieldsSetBy(cmd'.name) :
                    /\ Get(rev, db'[g])[f] = Get(rev, db[g])[f]
                    /\ ColumnOf(db'[g], f) = ColumnOf(db[g], f)]_vars

\* /setlang has just changed the language of a guild that has a record
\* with an AFK channel
C26_Witness ==
    /\ cmd # NoCmd
    /\ cmd.name = "setlang"
    /\ cmd.outcome = "replied"
    /\ cmd.changed
    /\ db[cmd.g] # NoRow
    /\ Truthy(db[cmd.g].afk_channel_id)
    /\ db[cmd.g].language = Str("pt_br")

-----------------------------------------------------------------------------
(* SpecServer: the revision of src/index.js:279-633.  The file              *)
(* server_configs.db outlives the process, so the table starts empty or    *)
(* with the row an earlier run left.                                       *)

ServerRevs == {"index_b"}

InitServer ==
    /\ rev \in ServerRevs
    /\ db \in [Guilds -> {NoRow, VoiceRow(rev, FixedDelayMinutes)}]
    /\ StoreIdle /\ LocIdle /\ CmdIdle
    /\ voice = [m \in Members |-> NotInVoice]
    /\ botCanMove \in BOOLEAN
    /\ timers = <<>>
    /\ requests = <<>>
    /\ now = 0
    /\ ev = NoEvent
    /\ fired = NoFire
    /\ failure = NoFailure
    /\ idle = [m \in Members |-> NoIdle]

\* updateServerData for one guild; nativeAfk is guild.afkChannelId.  Nothing
\* catches an exception of saveServerConfig: the row stays as it was.
SweepServerData(g, nativeAfk) ==
    /\ rev \in ServerRevs
    /\ LET serverConfig == [OrEmpty(Get(rev, db[g])) EXCEPT
                               !.serverName   = GuildName(g),
                               !.allowedRoles = Arr(findAdminRoles)]
           withAfk == IF Truthy(nativeAfk)
                      THEN [serverConfig EXCEPT
                               !.afkChannelId   = nativeAfk,
                               !.afkChannelName = Str(ChannelName(nativeAfk.str))]
                      ELSE serverConfig
       IN  db' = [db EXCEPT ![g] = Save(rev, db[g], withAfk).row]
    /\ cmd' = NoCmd
    /\ args' = NoArgs
    /\ UNCHANGED <<rev, locVars, storeVars, sinceSetup, configured, voiceVars>>

NextServer ==
    \/ \E g \in Guilds, actor \in Actors, channelInput \in ChannelInputs,
          rolesInput \in RolesOptionInputs, language \in Languages :
           Setup(g, actor, channelInput, rolesInput, language, "5")
    \/ \E g \in Guilds, nativeAfk \in {Undef, Str("c1")} :
           SweepServerData(g, nativeAfk)
    \/ \E m \in Members : \E newState \in VoiceStatesOf(m) :
           VoiceStateUpdate(m, newState)

SpecServer == InitServer /\ [][NextServer]_vars

-----------------------------------------------------------------------------
(* SpecPending: one guild with a record, whose administrator changes the   *)
(* AFK channel and the timeout while a member's timer may be pending.      *)

PendingRevs == {"part_003a"}
PendingChannels == {"c1", "music"}

InitPending ==
    /\ rev \in PendingRevs
    /\ db = [g \in Guilds |-> VoiceRow(rev, DefaultAfkTimeout)]
    /\ StoreIdle /\ LocIdle /\ CmdIdle /\ VoiceIdle

NextPending ==
    \/ \E channelInput \in PendingChannels, afkTimeout \in TimeoutChoices :
           Setup(TheGuild, IsoActor, channelInput, "", "en_us", afkTimeout)
    \/ \E channelInput \in PendingChannels :
           SetAfk(TheGuild, IsoActor, channelInput)
    \/ \E afkTimeout \in TimeoutChoices : AfkLimit(TheGuild, IsoActor, afkTimeout)
    \/ \E newState \in IsoVoiceStates : VoiceEvent("u1", newState)
    \/ TimerFor
    \/ Tick

SpecPending == InitPending /\ [][NextPending]_vars

\* the delay, in ticks, that the stored afk_timeout of guild g stands for
StoredDelay(g) ==
    LET afkTimeout == ColumnOf(db[g], "afkTimeout")
    IN  ((IF IsNum(afkTimeout) THEN afkTimeout.num ELSE 0) * 60 * 1000)
            \div MsPerTick

\* C28: a timer is armed with the AFK channel and the timeout stored in the
\* guild's record at that moment; no command changes a pending timer; and
\* the callback that moves the member moves them to the channel the timer
\* was armed with, not before its deadline, whatever the record holds by
\* then.
C28_PendingTimerKeepsTarget ==
    [][/\ Len(timers') > Len(timers) =>
              LET armed == timers'[Len(timers')]
              IN  /\ armed.afk = ColumnOf(db[TheGuild], "afkChannelId")
                  /\ armed.deadline = now + StoredDelay(TheGuild)
       /\ db' # db => timers' = timers
       /\ \A i \in 1..MaxTimers :
              FireMoves(i) =>
                  /\ requests'[Len(requests')].channelId = timers[i].afk
                  /\ timers[i].deadline <= now]_vars

\* a callback has just moved a member to the channel its timer was armed
\* with, which is no longer the AFK channel of the guild's record
C28_Witness ==
    /\ fired # NoFire
    /\ fired.moved
    /\ requests # <<>>
    /\ requests[Len(requests)].kind = "setChannel"
    /\ requests[Len(requests)].channelId = Str("c1")
    /\ db[TheGuild].afk_channel_id = Str("c3")

-----------------------------------------------------------------------------
\* the step just taken applied a callback's setChannel into the AFK channel
\* of the guild's record and handled the voice-state event it produced
MovedIntoAfk ==
    /\ ev # NoEvent
    /\ ev.moved
    /\ Configured(GuildConfig)
    /\ voice[ev.member].channelId = GuildConfig.afkChannelId

\* C29: the voice-state event that a callback's setChannel into the AFK
\* channel produces has the AFK channel as its new channel; on it the
\* handler requests a disconnect of the moved member and arms no timer (no
\* pending timer was armed for the AFK channel).
C29_RelocatedIsDisconnected ==
    MovedIntoAfk =>
        /\ ev.disconnects = 1
        /\ requests # <<>>
        /\ requests[Len(requests)] =
               [kind |-> "disconnect", member |-> ev.member, channelId |-> Null]
        /\ \A j \in DOMAIN timers :
               timers[j].channelId # GuildConfig.afkChannelId

\* the event of a member moved into the AFK channel by a callback has just
\* been handled, and the disconnect is requested
C29_Witness ==
    /\ ev # NoEvent
    /\ ev.moved
    /\ ev.disconnects = 1
    /\ voice[ev.member].channelId = GuildConfig.afkChannelId
    /\ voice[ev.member].selfMute /\ voice[ev.member].selfDeaf
    /\ requests # <<>>
    /\ requests[Len(requests)] =
           [kind |-> "disconnect", member |-> ev.member, channelId |-> Null]

-----------------------------------------------------------------------------
\* the afkChannelId that getGuildConfig returns for guild g is non-empty
HasAfkChannel(row) ==
    /\ row # NoRow
    /\ Get(rev, row) # SyntaxError
    /\ Truthy(Get(rev, row).afkChannelId)

\* C30: in the merging revisions, once getGuildConfig returns a non-empty
\* afkChannelId for a guild, it does so after every later step; the value
\* is the id of a voice channel, and a call of saveGuildConfig changes it
\* only to the non-empty afkChannelId the call was given.
C30_AfkChannelNeverCleared ==
    [][\A g \in Guilds :
          (rev \in MergingRevs /\ HasAfkChannel(db[g])) =>
              /\ HasAfkChannel(db'[g])
              /\ IsStr(Get(rev, db'[g]).afkChannelId)
              /\ Get(rev, db'[g]).afkChannelId.str \in VoiceChannels
              /\ (calls' > calls /\ db'[g].afk_channel_id # db[g].afk_channel_id)
                     => /\ storeCall'.g = g
                        /\ Truthy(storeCall'.config.afkChannelId)
                        /\ db'[g].afk_channel_id = storeCall'.config.afkChannelId]_vars

\* a call of the merging saveGuildConfig that passed afkChannelId as null
\* or as the empty string has changed the row of a guild with an AFK
\* channel, and the AFK channel is still the one stored before
C30_Witness ==
    /\ rev \in MergingRevs
    /\ Returned
    /\ storeCall.config.afkChannelId \in {Null, Str("")}
    /\ storeCall.before # NoRow
    /\ Truthy(storeCall.before.afk_channel_id)
    /\ db[storeCall.g] # storeCall.before
    /\ db[storeCall.g].afk_channel_id = storeCall.before.afk_channel_id

====
